---- MODULE Spec2Model ----
(***************************************************************************)
(* Model of the GitHub publisher plugin (src/src/main.ts): the settings,   *)
(* the periodic timer, the vault, the remote repository (branch ref,       *)
(* commits, trees) and the runs of publishToGitHub, one action per await   *)
(* point of a run.                                                         *)
(*                                                                         *)
(* Spec:       the runs started by the timer and by hand.                  *)
(* TabSpec:    one run among the onChange handlers of the settings tab.    *)
(* SparseSpec: the runs against tree listings that leave out a sha.        *)
(***************************************************************************)
EXTENDS Integers, Sequences, FiniteSets, TLC

VARIABLES
    settings,        \* this.settings (GitHubPublisherSettings)
    octokit,         \* this.octokit: the token the client was built with
    syncIntervalId,  \* this.syncIntervalId (0 models null)
    timers,          \* the window intervals that are live
    vault,           \* app.vault: vault path -> bytes, or NoFile
    branchRef,       \* remote: the commit heads/<branch> points to
    commits,         \* remote: commit sha (index) -> [tree, parents]
    run,             \* the invocations of publishToGitHub and their locals
    clock,           \* source of new Date(): one tick per timestamp taken
    tab              \* the settings tab: its onChange handlers awaiting saveData

vars == <<settings, octokit, syncIntervalId, timers, vault, branchRef, commits,
          run, clock, tab>>

-----------------------------------------------------------------------------
(* Bounds and universes *)

\* invocations of publishToGitHub in one behaviour
MaxRuns == 2

\* onChange events of the settings tab in one behaviour
MaxEdits == 2

RunIds == 1..MaxRuns

\* isTextBuffer's default sampleSize
SampleSize == 1024

NoFile == <<-2>>
Undefined == <<-1>>
UndefinedSha == "undefined"

\* the files and folders a vault may hold; children in listing order
VaultFilePaths == {"a.md", "d/b.md"}
VaultFolders == {"d"}
VaultChildren == [f \in VaultFolders |-> <<"d/b.md">>]

\* what each vault file may hold (bytes): "A" or a NUL byte for a.md; nothing
\* (an empty file) or no file at all for d/b.md
FileContents ==
    [p \in VaultFilePaths |->
        IF p = "a.md" THEN {<<65>>, <<0>>} ELSE {NoFile, << >>}]

\* every path a remote tree may list, in the order git lists a tree
AllPaths == <<"a.md", "d", "d/b.md", "other.txt", "pub", "pub/a.md", "pub/d",
              "pub/d/b.md", "pub/old.md">>

-----------------------------------------------------------------------------
(* Strings *)

StartsWith(s, p) == Len(s) >= Len(p) /\ SubSeq(s, 1, Len(p)) = p

\* repoFolder.replace(/^\/|\/$/g, ""): one leading and one trailing slash
StripSlashes(s) ==
    LET a == IF Len(s) > 0 /\ SubSeq(s, 1, 1) = "/" THEN SubSeq(s, 2, Len(s)) ELSE s
    IN  IF Len(a) > 0 /\ SubSeq(a, Len(a), Len(a)) = "/"
        THEN SubSeq(a, 1, Len(a) - 1) ELSE a

\* obsidian's normalizePath on the paths of this model: no slash at either end
RECURSIVE NormalizePath(_)
NormalizePath(p) ==
    IF Len(p) > 1 /\ SubSeq(p, 1, 1) = "/" THEN NormalizePath(SubSeq(p, 2, Len(p)))
    ELSE IF Len(p) > 1 /\ SubSeq(p, Len(p), Len(p)) = "/"
         THEN NormalizePath(SubSeq(p, 1, Len(p) - 1))
         ELSE p

-----------------------------------------------------------------------------
(* Pure functions of main.ts *)

Min(a, b) == IF a < b THEN a ELSE b

\* the positions i where "github.com" and then ':' or '/' start in url
HostAt(url) ==
    {i \in 1..Len(url) :
        /\ i + 10 <= Len(url)
        /\ SubSeq(url, i, i + 9) = "github.com"
        /\ SubSeq(url, i + 10, i + 10) \in {":", "/"}}

\* the positions j of the '/' that ends a non-empty owner and is followed by a
\* non-empty repo, for the host match at i
OwnerEndAt(url, i) ==
    {j \in (i + 12)..(Len(url) - 1) : SubSeq(url, j, j) = "/"}

\* url.match(/github\.com[:/](.+?)\/(.+?)(\.git)?$/i) found a match
UrlMatches(url) == \E i \in HostAt(url) : OwnerEndAt(url, i) # {}

SetMin(S) == CHOOSE x \in S : \A y \in S : x <= y

\* parseRepoUrl: [ok, owner, repo]; ok = FALSE is the thrown Error
parseRepoUrl(url) ==
    IF ~UrlMatches(url) THEN [ok |-> FALSE, owner |-> "", repo |-> ""]
    ELSE LET i == SetMin({k \in HostAt(url) : OwnerEndAt(url, k) # {}})
             j == SetMin(OwnerEndAt(url, i))
             rest == SubSeq(url, j + 1, Len(url))
             n == Len(rest)
             repo == IF n > 4 /\ SubSeq(rest, n - 3, n) = ".git"
                     THEN SubSeq(rest, 1, n - 4) ELSE rest
         IN  [ok |-> TRUE, owner |-> SubSeq(url, i + 11, j - 1), repo |-> repo]

\* the bytes isTextBuffer counts: not tab, LF, CR, 32..126 or 128..255
NonConforming(c) ==
    /\ c # 9 /\ c # 10 /\ c # 13
    /\ ~(c >= 32 /\ c <= 126)
    /\ ~(c >= 128 /\ c <= 255)

\* isTextBuffer: nonAscii / len < 0.05; with len = 0 the quotient is NaN and
\* the comparison is false
isTextBuffer(buffer) ==
    LET len == Min(Len(buffer), SampleSize)
        nonAscii == Cardinality({i \in 1..len : NonConforming(buffer[i])})
    IN  IF len = 0 THEN FALSE ELSE nonAscii * 100 < 5 * len

\* new TextDecoder("utf-8").decode on the bytes of this model: ASCII bytes are
\* their code point, a 0xFF byte is malformed and decodes to U+FFFD
Utf8Decode(bytes) ==
    [i \in 1..Len(bytes) |-> IF bytes[i] < 128 THEN bytes[i] ELSE 65533]

\* new TextEncoder().encode: ASCII as one byte, U+FFFD as EF BF BD
RECURSIVE Utf8Encode(_)
Utf8Encode(str) ==
    IF str = << >> THEN << >>
    ELSE (IF Head(str) < 128 THEN <<Head(str)>> ELSE <<239, 191, 189>>)
         \o Utf8Encode(Tail(str))

\* SHA-1 of header + payload, as a collision-free digest of the hashed bytes
Sha1OfBlob(bytes) ==
    "sha1(blob " \o ToString(Len(bytes)) \o "\\0" \o ToString(bytes) \o ")"

\* gitBlobSha1 of a string (TextEncoder) or of a buffer
gitBlobSha1(content, isString) ==
    Sha1OfBlob(IF isString THEN Utf8Encode(content) ELSE content)

\* obsidian's arrayBufferToBase64 and the decoding the server does
ArrayBufferToBase64(bytes) == [base64 |-> bytes]
Base64Decode(b) == b.base64

-----------------------------------------------------------------------------
(* Vault walker *)

IsFile(p) == p \in VaultFilePaths /\ vault[p] # NoFile
IsFolder(p) == p \in VaultFolders

\* fileOrFolder.children: the entries of the folder that exist
Children(p) == SelectSeq(VaultChildren[p], LAMBDA c : IsFile(c) \/ IsFolder(c))

\* RepoPathOf that leaves the target folder out of the repo path
MutRepoPathOf(repoFolder, path) == path

\* repoFolder ? `${repoFolder}/${path}` : path
RepoPathOf(repoFolder, path) ==
    IF repoFolder # "" THEN repoFolder \o "/" \o path ELSE path

\* the LocalFile pushed for a TFile
LocalFileOf(path, repoFolder) ==
    LET binary == vault[path]
        isText == isTextBuffer(binary)
    IN  [vaultPath |-> path,
         repoPath  |-> RepoPathOf(repoFolder, path),
         content   |-> IF isText THEN Utf8Decode(binary) ELSE Undefined,
         binary    |-> IF ~isText THEN binary ELSE Undefined,
         isText    |-> isText]

\* gatherFilesRecursively: the LocalFiles appended for basePath
RECURSIVE gatherFilesRecursively(_, _)
RECURSIVE GatherChildren(_, _)
gatherFilesRecursively(basePath, repoFolder) ==
    LET p == NormalizePath(basePath)
    IN  IF IsFile(p) THEN <<LocalFileOf(p, repoFolder)>>
        ELSE IF IsFolder(p) THEN GatherChildren(Children(p), repoFolder)
        ELSE << >>
GatherChildren(children, repoFolder) ==
    IF children = << >> THEN << >>
    ELSE gatherFilesRecursively(Head(children), repoFolder)
         \o GatherChildren(Tail(children), repoFolder)

\* the loop over pathsToSync (lines 209-216)
RECURSIVE GatherAll(_, _)
GatherAll(pathsToSync, repoFolder) ==
    IF pathsToSync = << >> THEN << >>
    ELSE gatherFilesRecursively(Head(pathsToSync), repoFolder)
         \o GatherAll(Tail(pathsToSync), repoFolder)

-----------------------------------------------------------------------------
(* Remote repository: a tree is its blob paths with their shas *)

Range(seq) == {seq[i] : i \in 1..Len(seq)}

\* the directories on the way to path
DirsOf(path) ==
    {SubSeq(path, 1, i - 1) : i \in {k \in 2..Len(path) : SubSeq(path, k, k) = "/"}}

Under(path, dir) == StartsWith(path, dir \o "/")

\* getTree(recursive): every blob and every directory of the tree, in order
TreeListing(t) ==
    LET dirs == UNION {DirsOf(p) : p \in DOMAIN t}
        listed == SelectSeq(AllPaths, LAMBDA p : p \in DOMAIN t \/ p \in dirs)
    IN  [i \in 1..Len(listed) |->
            IF listed[i] \in DOMAIN t
            THEN [path |-> listed[i], type |-> "blob", sha |-> t[listed[i]]]
            ELSE [path |-> listed[i], type |-> "tree", sha |-> "tree " \o listed[i]]]

\* createTree(base_tree, tree): an entry with sha "" removes its path and what
\* is under it, any other entry puts its blob at its path
RECURSIVE ApplyOps(_, _)
ApplyOps(base, ops) ==
    IF ops = << >> THEN base
    ELSE LET op == Head(ops)
             kept == {p \in DOMAIN base : p # op.path /\ ~Under(p, op.path)}
             next == IF op.sha = ""
                     THEN [p \in kept |-> base[p]]
                     ELSE [p \in kept \cup {op.path} |->
                              IF p = op.path THEN op.sha ELSE base[p]]
         IN  ApplyOps(next, Tail(ops))

\* updateRef without force: accepted when the new commit descends from the ref
RECURSIVE IsAncestor(_, _, _)
IsAncestor(cs, a, c) ==
    \/ a = c
    \/ /\ c > 1
       /\ \E q \in Range(cs[c].parents) : q < c /\ IsAncestor(cs, a, q)

-----------------------------------------------------------------------------
(* Tree diff engine (publishToGitHub, lines 238-311) *)

\* InTargetFolder without the test of the entry's type
MutInTargetFolder(obj, repoFolder) ==
    /\ obj.path # ""
    /\ (obj.path = repoFolder \/ StartsWith(obj.path, repoFolder \o "/"))

\* the filter of the remote listing: a blob at repoFolder or under repoFolder/
InTargetFolder(obj, repoFolder) ==
    /\ obj.type = "blob"
    /\ obj.path # ""
    /\ (obj.path = repoFolder \/ StartsWith(obj.path, repoFolder \o "/"))

\* obj.sha || ""
ShaOrEmpty(sha) == IF sha = UndefinedSha THEN "" ELSE sha

\* remoteFiles: the Map path -> blob sha, as its entries in insertion order
RemoteFilesOf(listing, repoFolder) ==
    LET kept == SelectSeq(listing, LAMBDA obj : InTargetFolder(obj, repoFolder))
    IN  [i \in 1..Len(kept) |-> [path |-> kept[i].path, sha |-> ShaOrEmpty(kept[i].sha)]]

RemoteKeys(remoteFiles) == {e.path : e \in Range(remoteFiles)}

\* remoteFiles.get(path)
RemoteGet(remoteFiles, path) ==
    IF path \in RemoteKeys(remoteFiles)
    THEN (CHOOSE e \in Range(remoteFiles) : e.path = path).sha
    ELSE UndefinedSha

\* new Set(localFiles.map((f) => f.repoPath))
LocalRepoPathsOf(localFiles) == {f.repoPath : f \in Range(localFiles)}

TreeItem(path, sha) ==
    [path |-> path, mode |-> "100644", type |-> "blob", sha |-> sha]

\* Changed that takes a falsy remote sha for nothing to compare with
MutChanged(localSha, remoteSha) == remoteSha # "" /\ localSha # remoteSha

\* localSha !== remoteSha
Changed(localSha, remoteSha) == localSha # remoteSha

\* which branch of the loop body handles the file: "text", "binary" or "none"
FileKind(file) ==
    IF file.isText /\ file.content # Undefined THEN "text"
    ELSE IF ~file.isText /\ file.binary # Undefined THEN "binary"
    ELSE "none"

\* the sha gitBlobSha1 gives for the file
LocalShaOf(file) ==
    IF FileKind(file) = "text" THEN gitBlobSha1(file.content, TRUE)
    ELSE gitBlobSha1(file.binary, FALSE)

\* whether the loop body uploads the file
NeedsBlob(file, remoteFiles) ==
    /\ FileKind(file) # "none"
    /\ Changed(LocalShaOf(file), RemoteGet(remoteFiles, file.repoPath))

\* createBlob: the sha of the blob the server stores for the payload
CreateBlobSha(file) ==
    IF FileKind(file) = "text" THEN Sha1OfBlob(Utf8Encode(file.content))
    ELSE Sha1OfBlob(Base64Decode(ArrayBufferToBase64(file.binary)))

\* DeleteOps without the test against localRepoPaths
MutDeleteOps(remoteFiles, localRepoPaths) ==
    [i \in 1..Len(remoteFiles) |-> TreeItem(remoteFiles[i].path, "")]

\* the delete entries: every key of remoteFiles that is no local repo path
DeleteOps(remoteFiles, localRepoPaths) ==
    LET gone == SelectSeq(remoteFiles, LAMBDA e : e.path \notin localRepoPaths)
    IN  [i \in 1..Len(gone) |-> TreeItem(gone[i].path, "")]

-----------------------------------------------------------------------------
(* JavaScript numbers of the sync interval: an integer or NaN *)

NaN == [nan |-> TRUE, v |-> 0]
Num(v) == [nan |-> FALSE, v |-> v]
isNaN(n) == n.nan

\* n <= k for an integer k: false when n is NaN
LessOrEqual(n, k) == ~n.nan /\ n.v <= k

Digits == <<"0", "1", "2", "3", "4", "5", "6", "7", "8", "9">>
IsDigit(c) == \E d \in 1..Len(Digits) : Digits[d] = c
DigitOf(c) == (CHOOSE d \in 1..Len(Digits) : Digits[d] = c) - 1

\* the value of a string of decimal digits
RECURSIVE DigitsValue(_)
DigitsValue(s) ==
    IF Len(s) = 0 THEN 0
    ELSE 10 * DigitsValue(SubSeq(s, 1, Len(s) - 1)) + DigitOf(SubSeq(s, Len(s), Len(s)))

AllDigits(s) == Len(s) > 0 /\ \A i \in 1..Len(s) : IsDigit(SubSeq(s, i, i))

\* Number(value) on the text of the interval input: "" is 0, a signed decimal
\* integer is its value, any other text of this model is NaN
Number(value) ==
    IF value = "" THEN Num(0)
    ELSE IF AllDigits(value) THEN Num(DigitsValue(value))
    ELSE IF SubSeq(value, 1, 1) = "-" /\ AllDigits(SubSeq(value, 2, Len(value)))
    THEN Num(0 - DigitsValue(SubSeq(value, 2, Len(value))))
    ELSE IF SubSeq(value, 1, 1) = "+" /\ AllDigits(SubSeq(value, 2, Len(value)))
    THEN Num(DigitsValue(SubSeq(value, 2, Len(value))))
    ELSE NaN

-----------------------------------------------------------------------------
(* Initial state: the plugin after onload, a vault and a remote branch *)

ValidUrl == "https://github.com/o/r.git"

SettingsOf(token, url, folder, selected) ==
    [githubToken   |-> token,
     repoUrl       |-> url,
     repoFolder    |-> folder,
     repoBranch    |-> "main",
     selectedPaths |-> selected,
     syncInterval  |-> Num(60),
     lastSyncDate  |-> 0]

Folders == {"", "/pub/"}
Selections == {<<"gone", "a.md", "d/">>, <<"d", "d/b.md">>}

\* a repository URL that parseRepoUrl rejects
BadUrl == "https://example.com/o/r"

\* the stored settings onload may find: complete ones, and ones with no token,
\* no URL, no branch or a URL that does not parse
SettingsChoices ==
    {SettingsOf("tok", ValidUrl, f, sel) : f \in Folders, sel \in Selections}
    \cup {SettingsOf("", ValidUrl, "", <<"d", "d/b.md">>),
          SettingsOf("tok", BadUrl, "", <<"d", "d/b.md">>),
          SettingsOf("tok", "", "", <<"d", "d/b.md">>),
          [SettingsOf("tok", ValidUrl, "", <<"d", "d/b.md">>) EXCEPT !.repoBranch = ""]}

Vaults == {v \in [VaultFilePaths -> UNION {FileContents[p] : p \in VaultFilePaths}] :
            \A p \in VaultFilePaths : v[p] \in FileContents[p]}

\* the trees the branch may hold at first: other.txt with or without files
\* under pub/, or a.md alone at the root
InitTrees ==
    {[p \in D \cup {"other.txt"} |-> Sha1OfBlob(<<65>>)] :
        D \in SUBSET {"pub/a.md", "pub/old.md"}}
    \cup {[p \in {"a.md"} |-> Sha1OfBlob(<<65>>)]}

EmptyTree == [p \in {} |-> ""]

IdleRun ==
    [pc |-> "idle", outcome |-> "", failedAt |-> "",
     branch |-> "", repoFolder |-> "", pathsToSync |-> << >>,
     localFiles |-> << >>, latestCommitSha |-> 0, baseTreeSha |-> EmptyTree,
     remoteFiles |-> << >>, localRepoPaths |-> {}, tree |-> << >>, idx |-> 0,
     newTreeSha |-> EmptyTree, commitSha |-> 0,
     \* history, read by the properties only: the remote calls answered so far,
     \* the timestamp the run wrote, the runs that had ended well at its start
     calls |-> << >>, stamp |-> 0, after |-> {}]

\* the settings tab with no handler awaiting saveData; edits counts the
\* onChange events of the behaviour
ClosedTab == [saving |-> 0, edits |-> 0]

-----------------------------------------------------------------------------
(* The periodic timer (clearInterval, setupSyncInterval, onSettingsChange) *)

\* window.setInterval: an id no live interval has
FreshTimer(live) == SetMin({i \in 1..(Cardinality(live) + 1) : i \notin live})

\* clearInterval that leaves the interval of syncIntervalId running
MutClearedTimers(id, live) == live

\* the live intervals after clearInterval()
ClearedTimers(id, live) == IF id # 0 THEN live \ {id} ELSE live

\* setupSyncInterval without the test minutes <= 0
MutIntervalWanted(s) ==
    /\ s.githubToken # "" /\ s.repoUrl # "" /\ s.repoBranch # ""
    /\ ~isNaN(s.syncInterval)

\* whether setupSyncInterval goes on to set an interval
IntervalWanted(s) ==
    /\ s.githubToken # "" /\ s.repoUrl # "" /\ s.repoBranch # ""
    /\ LET minutes == s.syncInterval
       IN  ~(isNaN(minutes) \/ LessOrEqual(minutes, 0))

\* setupSyncInterval: [id, live] after it
setupSyncInterval(s, id, live) ==
    LET cleared == ClearedTimers(id, live)
    IN  IF IntervalWanted(s)
        THEN [id |-> FreshTimer(cleared), live |-> cleared \cup {FreshTimer(cleared)}]
        ELSE [id |-> 0, live |-> cleared]

\* onSettingsChange: a new Octokit for the token, then setupSyncInterval
onSettingsChange(s) ==
    /\ octokit' = s.githubToken
    /\ syncIntervalId' = setupSyncInterval(s, syncIntervalId, timers).id
    /\ timers' = setupSyncInterval(s, syncIntervalId, timers).live

Init ==
    /\ settings \in SettingsChoices
    /\ octokit = settings.githubToken
    /\ syncIntervalId = setupSyncInterval(settings, 0, {}).id
    /\ timers = setupSyncInterval(settings, 0, {}).live
    /\ vault \in Vaults
    /\ branchRef = 1
    /\ \E t \in InitTrees : commits = <<[tree |-> t, parents |-> << >>]>>
    /\ run = [r \in RunIds |-> IdleRun]
    /\ clock = 0
    /\ tab = ClosedTab

-----------------------------------------------------------------------------
(* publishToGitHub: one action per await point *)

\* a remote call as the log keeps it: the client it went through (this.octokit
\* at the call), the endpoint, the repo path (createBlob), the answer
Call(auth, api, path, ok) == [auth |-> auth, api |-> api, path |-> path, ok |-> ok]

\* Caught that leaves the invocation at its stage, to issue the call again
MutCaught(r, rec, stage) == run' = [run EXCEPT ![r] = rec]

\* the catch block (lines 350-356): the invocation ends, nothing else changes
Caught(r, rec, stage) ==
    run' = [run EXCEPT ![r] = [rec EXCEPT !.pc = "done", !.outcome = "error",
                                           !.failedAt = stage]]

\* the settings check without the test of repoBranch
MutSettingsComplete(s) == s.githubToken # "" /\ s.repoUrl # ""

\* the settings check of lines 192-199
SettingsComplete(s) ==
    s.githubToken # "" /\ s.repoUrl # "" /\ s.repoBranch # ""

\* the invocations that have returned after recording a sync
EndedWell ==
    {q \in RunIds : run[q].pc = "done" /\ run[q].outcome \in {"noop", "published"}}

\* lines 190-206: up to the first await of the invocation. Nothing in it looks
\* at the invocations in flight. The invocations take their ids in order.
publishToGitHub(r) ==
    /\ run[r].pc = "idle"
    /\ \A q \in RunIds : q < r => run[q].pc # "idle"
    /\ IF ~SettingsComplete(settings)
       THEN run' = [run EXCEPT ![r].pc = "done", ![r].outcome = "invalid"]
       ELSE IF ~parseRepoUrl(settings.repoUrl).ok
       THEN Caught(r, run[r], "parseRepoUrl")
       ELSE run' = [run EXCEPT ![r].pc = "gather",
                               ![r].after = EndedWell,
                               ![r].branch = settings.repoBranch,
                               ![r].repoFolder = StripSlashes(settings.repoFolder),
                               ![r].pathsToSync = settings.selectedPaths]
    /\ UNCHANGED <<settings, octokit, syncIntervalId, timers, vault, tab, branchRef,
                   commits, clock>>

\* the interval callback of setupSyncInterval (lines 153-155)
TimerTick == \E t \in timers, r \in RunIds : publishToGitHub(r)

\* the 'publish-now' command (lines 104-110)
PublishNowCommand == \E r \in RunIds : publishToGitHub(r)

\* the 'Synchronize now' button (lines 597-604)
SynchronizeNowButton == \E r \in RunIds : publishToGitHub(r)

\* lines 209-216: the vault reads; then getRef is issued
Gather(r) ==
    /\ run[r].pc = "gather"
    /\ run' = [run EXCEPT
                 ![r].pc = "getRef",
                 ![r].localFiles = GatherAll(run[r].pathsToSync, run[r].repoFolder)]
    /\ UNCHANGED <<settings, octokit, syncIntervalId, timers, vault, tab, branchRef,
                   commits, clock>>

RemoteStages ==
    {"getRef", "getCommit", "getTree", "createBlob", "createTree", "createCommit",
     "updateRef"}

\* the repo path a call is about (createBlob), "" for the other calls
CallPath(rec) ==
    IF rec.pc = "createBlob" THEN rec.localFiles[rec.idx].repoPath ELSE ""

\* the call log of the run with the answer of the call in flight
Logged(rec, ok) == Append(rec.calls, Call(octokit, rec.pc, CallPath(rec), ok))

\* the remote call in flight is rejected: the catch block runs
CallFails(r) ==
    /\ run[r].pc \in RemoteStages
    /\ Caught(r, [run[r] EXCEPT !.calls = Logged(run[r], FALSE)], run[r].pc)
    /\ UNCHANGED <<settings, octokit, syncIntervalId, timers, vault, tab, branchRef,
                   commits, clock>>

\* lines 219-224: getRef answers; getCommit is issued
GetRef(r) ==
    /\ run[r].pc = "getRef"
    /\ run' = [run EXCEPT ![r].pc = "getCommit",
                          ![r].latestCommitSha = branchRef,
                          ![r].calls = Logged(run[r], TRUE)]
    /\ UNCHANGED <<settings, octokit, syncIntervalId, timers, vault, tab, branchRef,
                   commits, clock>>

\* lines 225-230: getCommit answers; getTree is issued
GetCommit(r) ==
    /\ run[r].pc = "getCommit"
    /\ run' = [run EXCEPT ![r].pc = "getTree",
                          ![r].baseTreeSha = commits[run[r].latestCommitSha].tree,
                          ![r].calls = Logged(run[r], TRUE)]
    /\ UNCHANGED <<settings, octokit, syncIntervalId, timers, vault, tab, branchRef,
                   commits, clock>>

\* lines 301-317: after the loop over localFiles, the delete entries and the
\* test of tree.length; an empty tree goes to updateLastSyncDate
EndOfDiff(rec) ==
    LET t == rec.tree \o DeleteOps(rec.remoteFiles, rec.localRepoPaths)
    IN  [rec EXCEPT !.tree = t,
                    !.pc = IF Len(t) = 0 THEN "save" ELSE "createTree"]

\* the loop of lines 258-299 goes to its next file (gitBlobSha1 is awaited) or ends
NextFile(rec) ==
    IF rec.idx <= Len(rec.localFiles) THEN [rec EXCEPT !.pc = "hash"]
    ELSE EndOfDiff(rec)

\* Continue with updateLastSyncDate called also once the operations are known,
\* ahead of createTree
MutContinue(r, rec) ==
    IF rec.pc \in {"save", "createTree"}
    THEN /\ settings' = [settings EXCEPT !.lastSyncDate = clock + 1]
         /\ clock' = clock + 1
         /\ run' = [run EXCEPT ![r] = [rec EXCEPT !.stamp = clock + 1]]
    ELSE /\ run' = [run EXCEPT ![r] = rec]
         /\ UNCHANGED <<settings, clock>>

\* updateLastSyncDate, line 166, when the invocation reaches it: the date is
\* set before saveData is awaited
Continue(r, rec) ==
    IF rec.pc = "save"
    THEN /\ settings' = [settings EXCEPT !.lastSyncDate = clock + 1]
         /\ clock' = clock + 1
         /\ run' = [run EXCEPT ![r] = [rec EXCEPT !.stamp = clock + 1]]
    ELSE /\ run' = [run EXCEPT ![r] = rec]
         /\ UNCHANGED <<settings, clock>>

\* lines 231-255: getTree answers with the listing baseTree.data.tree;
\* remoteFiles and localRepoPaths are built
GetTreeAnswers(r, listing) ==
    /\ run[r].pc = "getTree"
    /\ Continue(r, NextFile(
          [run[r] EXCEPT
              !.remoteFiles = RemoteFilesOf(listing, run[r].repoFolder),
              !.localRepoPaths = LocalRepoPathsOf(run[r].localFiles),
              !.tree = << >>,
              !.idx = 1,
              !.calls = Logged(run[r], TRUE)]))
    /\ UNCHANGED <<octokit, syncIntervalId, timers, vault, tab, branchRef, commits>>

\* getTree answers with the sha of every entry
GetTree(r) == GetTreeAnswers(r, TreeListing(run[r].baseTreeSha))

\* the listing with no sha on its blob entries at the paths of missing (sha
\* is an optional field of an entry of the response)
WithoutSha(listing, missing) ==
    [i \in 1..Len(listing) |->
        IF listing[i].type = "blob" /\ listing[i].path \in missing
        THEN [listing[i] EXCEPT !.sha = UndefinedSha]
        ELSE listing[i]]

\* getTree answers with some blob entries that carry no sha
GetTreeSparse(r) ==
    \E missing \in (SUBSET DOMAIN run[r].baseTreeSha) \ {{}} :
        GetTreeAnswers(r, WithoutSha(TreeListing(run[r].baseTreeSha), missing))

\* lines 260-266, 282-283: gitBlobSha1 answers; a changed file is uploaded
\* (createBlob is issued), an unchanged one is skipped
Hash(r) ==
    /\ run[r].pc = "hash"
    /\ IF NeedsBlob(run[r].localFiles[run[r].idx], run[r].remoteFiles)
       THEN /\ run' = [run EXCEPT ![r].pc = "createBlob"]
            /\ UNCHANGED <<settings, clock>>
       ELSE Continue(r, NextFile([run[r] EXCEPT !.idx = @ + 1]))
    /\ UNCHANGED <<octokit, syncIntervalId, timers, vault, tab, branchRef, commits>>

\* lines 267-278, 285-296: createBlob answers; its entry is pushed
CreateBlob(r) ==
    /\ run[r].pc = "createBlob"
    /\ LET file == run[r].localFiles[run[r].idx]
       IN  Continue(r, NextFile(
              [run[r] EXCEPT
                  !.tree = Append(@, TreeItem(file.repoPath, CreateBlobSha(file))),
                  !.idx = @ + 1,
                  !.calls = Logged(run[r], TRUE)]))
    /\ UNCHANGED <<octokit, syncIntervalId, timers, vault, tab, branchRef, commits>>

\* lines 320-325: createTree answers; createCommit is issued
CreateTree(r) ==
    /\ run[r].pc = "createTree"
    /\ run' = [run EXCEPT ![r].pc = "createCommit",
                          ![r].newTreeSha = ApplyOps(run[r].baseTreeSha, run[r].tree),
                          ![r].calls = Logged(run[r], TRUE)]
    /\ UNCHANGED <<settings, octokit, syncIntervalId, timers, vault, tab, branchRef,
                   commits, clock>>

\* lines 327-341: createCommit answers; updateRef is issued
CreateCommit(r) ==
    /\ run[r].pc = "createCommit"
    /\ commits' = Append(commits, [tree |-> run[r].newTreeSha,
                                   parents |-> <<run[r].latestCommitSha>>])
    /\ run' = [run EXCEPT ![r].pc = "updateRef",
                          ![r].commitSha = Len(commits) + 1,
                          ![r].calls = Logged(run[r], TRUE)]
    /\ UNCHANGED <<settings, octokit, syncIntervalId, timers, vault, tab, branchRef,
                   clock>>

\* updateRef sent with force: the server moves the ref wherever it is
MutRefUpdateAccepted(cs, ref, sha) == TRUE

\* whether the server accepts updateRef(sha) (no force): a fast-forward
RefUpdateAccepted(cs, ref, sha) == IsAncestor(cs, ref, sha)

\* lines 342-349: updateRef answers; then updateLastSyncDate
UpdateRef(r) ==
    /\ run[r].pc = "updateRef"
    /\ RefUpdateAccepted(commits, branchRef, run[r].commitSha)
    /\ branchRef' = run[r].commitSha
    /\ Continue(r, [run[r] EXCEPT !.pc = "save", !.calls = Logged(run[r], TRUE)])
    /\ UNCHANGED <<octokit, syncIntervalId, timers, vault, tab, commits>>

\* lines 167-171 and 478-484: saveData answers (the store is taken not to
\* fail), onSettingsChange runs and the invocation returns
SaveSettings(r) ==
    /\ run[r].pc = "save"
    /\ onSettingsChange(settings)
    /\ run' = [run EXCEPT ![r].pc = "done",
                          ![r].outcome = IF Len(run[r].tree) = 0 THEN "noop"
                                         ELSE "published"]
    /\ UNCHANGED <<settings, vault, tab, branchRef, commits, clock>>

\* an invocation goes on from one of its awaits
RunSteps ==
    \/ \E r \in RunIds : Gather(r)
    \/ \E r \in RunIds : CallFails(r)
    \/ \E r \in RunIds : GetRef(r)
    \/ \E r \in RunIds : GetCommit(r)
    \/ \E r \in RunIds : GetTree(r)
    \/ \E r \in RunIds : Hash(r)
    \/ \E r \in RunIds : CreateBlob(r)
    \/ \E r \in RunIds : CreateTree(r)
    \/ \E r \in RunIds : CreateCommit(r)
    \/ \E r \in RunIds : UpdateRef(r)
    \/ \E r \in RunIds : SaveSettings(r)

Next ==
    \/ TimerTick
    \/ PublishNowCommand
    \/ SynchronizeNowButton
    \/ RunSteps

Spec == Init /\ [][Next]_vars

-----------------------------------------------------------------------------
(* The settings tab (GitHubPublisherSettingTab.display, lines 517-594): each
   onChange handler sets its field of this.settings and awaits saveSettings,
   which awaits saveData and then runs onSettingsChange. The handlers and the
   invocations of publishToGitHub interleave at their awaits. *)

\* what the user may type or pick in the tab
Tokens == {"", "tok", "tok2"}
RepoUrls == {"", ValidUrl, BadUrl}
IntervalTexts == {"", "0", "-5", "abc", "60"}

\* an onChange handler up to its await: the settings are s, saveData is issued
OnChange(s) ==
    /\ tab.edits < MaxEdits
    /\ settings' = s
    /\ tab' = [saving |-> tab.saving + 1, edits |-> tab.edits + 1]
    /\ UNCHANGED <<octokit, syncIntervalId, timers, vault, branchRef, commits,
                   run, clock>>

\* lines 528-533
SetGithubToken ==
    \E value \in Tokens : OnChange([settings EXCEPT !.githubToken = value])

\* lines 543-546
SetRepoUrl ==
    \E value \in RepoUrls : OnChange([settings EXCEPT !.repoUrl = value])

\* lines 558-561
SetRepoFolder ==
    \E value \in Folders : OnChange([settings EXCEPT !.repoFolder = value])

\* lines 575-578: the callback of the multi-path input assigns the new list
SetSelectedPaths ==
    \E selected \in Selections : OnChange([settings EXCEPT !.selectedPaths = selected])

\* lines 590-593
SetSyncInterval ==
    \E value \in IntervalTexts :
        OnChange([settings EXCEPT !.syncInterval = Number(value)])

\* saveSettings of a handler, lines 480-483: saveData answers (the store is
\* taken not to fail) and onSettingsChange runs on the settings as they are now
TabSaveSettings ==
    /\ tab.saving > 0
    /\ onSettingsChange(settings)
    /\ tab' = [tab EXCEPT !.saving = @ - 1]
    /\ UNCHANGED <<settings, vault, branchRef, commits, run, clock>>

\* a vault and a branch on which a run publishes, with the tab open
TabInit ==
    /\ settings \in {SettingsOf("tok", ValidUrl, "/pub/", <<"gone", "a.md", "d/">>),
                     [SettingsOf("tok", ValidUrl, "/pub/", <<"gone", "a.md", "d/">>)
                          EXCEPT !.syncInterval = Num(0)]}
    /\ octokit = settings.githubToken
    /\ syncIntervalId = setupSyncInterval(settings, 0, {}).id
    /\ timers = setupSyncInterval(settings, 0, {}).live
    /\ vault = [p \in VaultFilePaths |-> IF p = "a.md" THEN <<65>> ELSE << >>]
    /\ branchRef = 1
    /\ commits = <<[tree |-> [p \in {"other.txt", "pub/old.md"} |-> Sha1OfBlob(<<65>>)],
                   parents |-> << >>]>>
    /\ run = [r \in RunIds |-> IdleRun]
    /\ clock = 0
    /\ tab = ClosedTab

\* TabSpec follows one invocation of publishToGitHub among the handlers of the
\* tab: a trigger is taken while no invocation has started
NoneStarted == \A r \in RunIds : run[r].pc = "idle"

TabNext ==
    \/ (NoneStarted /\ TimerTick)
    \/ (NoneStarted /\ PublishNowCommand)
    \/ (NoneStarted /\ SynchronizeNowButton)
    \/ RunSteps
    \/ SetGithubToken
    \/ SetRepoUrl
    \/ SetRepoFolder
    \/ SetSelectedPaths
    \/ SetSyncInterval
    \/ TabSaveSettings

TabSpec == TabInit /\ [][TabNext]_vars

-----------------------------------------------------------------------------
(* The runs against a server whose tree listings may leave out the sha of an
   entry *)

SparseInit ==
    /\ Init
    /\ SettingsComplete(settings) /\ parseRepoUrl(settings.repoUrl).ok
    /\ settings.selectedPaths = <<"gone", "a.md", "d/">>
    /\ settings.repoFolder = "/pub/"
    /\ vault["d/b.md"] = NoFile
    /\ "other.txt" \in DOMAIN commits[1].tree

SparseNext ==
    \/ Next
    \/ \E r \in RunIds : GetTreeSparse(r)

SparseSpec == SparseInit /\ [][SparseNext]_vars

-----------------------------------------------------------------------------
(* Vocabulary of the properties *)

InFlight(rec) == rec.pc \notin {"idle", "done"}

Issued(rec, api) == \E i \in 1..Len(rec.calls) : rec.calls[i].api = api

Succeeded(rec, api) ==
    \E i \in 1..Len(rec.calls) : rec.calls[i].api = api /\ rec.calls[i].ok

\* the run has built remoteFiles and localRepoPaths
DiffStarted(rec) == Succeeded(rec, "getTree")

\* the run has its whole operation sequence
DiffDone(rec) ==
    /\ DiffStarted(rec)
    /\ \/ rec.pc \in {"createTree", "createCommit", "updateRef", "save"}
       \/ rec.pc = "done" /\ rec.outcome \in {"noop", "published"}
       \/ rec.pc = "done" /\ rec.failedAt \in {"createTree", "createCommit", "updateRef"}

\* a path of the target folder: every path when the folder is the root
UnderTarget(path, folder) ==
    folder = "" \/ path = folder \/ StartsWith(path, folder \o "/")

\* the sha of the blob that holds the content of a LocalFile
ContentSha(file) ==
    Sha1OfBlob(IF file.isText THEN Utf8Encode(file.content) ELSE file.binary)

AddPaths(tree) == {tree[i].path : i \in {k \in 1..Len(tree) : tree[k].sha # ""}}
DeletePaths(tree) == {tree[i].path : i \in {k \in 1..Len(tree) : tree[k].sha = ""}}
OpsAt(tree, path) == {i \in 1..Len(tree) : tree[i].path = path}

-----------------------------------------------------------------------------
(* C1: no two runs of publishToGitHub are in flight at the same time, and no
   two runs that are in flight together both issue an updateRef. *)
C1_NoOverlap ==
    /\ Cardinality({r \in RunIds : InFlight(run[r])}) <= 1
    /\ \A r, q \in RunIds :
          (r # q /\ InFlight(run[r]) /\ InFlight(run[q]))
          => ~(/\ (run[r].pc = "updateRef" \/ Issued(run[r], "updateRef"))
               /\ (run[q].pc = "updateRef" \/ Issued(run[q], "updateRef")))

(* C2: the operations of a run, applied to its base tree, give a tree whose
   blob paths under the target folder are exactly the local repo paths, each
   with the local content. *)
C2_TreeEqualsLocal ==
    \A r \in RunIds :
        DiffDone(run[r]) =>
            LET res == ApplyOps(run[r].baseTreeSha, run[r].tree)
            IN  /\ {p \in DOMAIN res : UnderTarget(p, run[r].repoFolder)}
                      = LocalRepoPathsOf(run[r].localFiles)
                /\ \A f \in Range(run[r].localFiles) : res[f.repoPath] = ContentSha(f)

(* C3: with an empty target folder every blob entry of the remote listing is
   in the remote map, with its sha. *)
C3_EmptyFolderMapsAll ==
    \A r \in RunIds :
        (DiffStarted(run[r]) /\ run[r].repoFolder = "") =>
            \A p \in DOMAIN run[r].baseTreeSha :
                RemoteGet(run[r].remoteFiles, p) = run[r].baseTreeSha[p]

(* C4: the operation sequence of a run is empty if and only if every path of
   the local repo paths and of the remote paths under the target folder is on
   both sides with the same hash. *)
C4_EmptyIffEqual ==
    \A r \in RunIds :
        DiffDone(run[r]) =>
            LET base == run[r].baseTreeSha
                remote == {p \in DOMAIN base : UnderTarget(p, run[r].repoFolder)}
                local == LocalRepoPathsOf(run[r].localFiles)
            IN  (Len(run[r].tree) = 0) <=>
                   /\ remote = local
                   /\ \A f \in Range(run[r].localFiles) :
                         LocalShaOf(f) = base[f.repoPath]

Mutating == {"createBlob", "createTree", "createCommit", "updateRef"}

\* the run has issued no createBlob, createTree, createCommit or updateRef
NoMutatingCall(rec) ==
    /\ rec.pc \notin Mutating
    /\ \A i \in 1..Len(rec.calls) : rec.calls[i].api \notin Mutating

\* the local files and the remote files of the target folder are the same
\* paths with the same hashes
LocalEqualsRemote(rec) ==
    {<<f.repoPath, LocalShaOf(f)>> : f \in Range(rec.localFiles)}
        = {<<p, rec.baseTreeSha[p]>> :
              p \in {q \in DOMAIN rec.baseTreeSha : UnderTarget(q, rec.repoFolder)}}

(* C5: a run whose local file set equals the remote set (same paths, same
   hashes) issues no createBlob, createTree, createCommit or updateRef, does
   not move the branch ref, and records the last-sync timestamp before it
   returns as a no-op. *)
C5_EqualSetsNoCalls ==
    \A r \in RunIds :
        (DiffStarted(run[r]) /\ LocalEqualsRemote(run[r])) =>
            /\ NoMutatingCall(run[r])
            /\ run[r].pc \in {"hash", "save", "done"}
            /\ run[r].pc \in {"save", "done"} =>
                  /\ Len(run[r].tree) = 0
                  /\ run[r].stamp > 0
                  /\ settings.lastSyncDate >= run[r].stamp
            /\ run[r].pc = "done" => run[r].outcome = "noop"

\* the head a run that ended well left on the branch
HeadLeftBy(rec) ==
    IF rec.outcome = "published" THEN rec.commitSha ELSE rec.latestCommitSha

(* C6: a run started after a run ended well, with the same settings and vault,
   that finds the branch where that run left it, issues no createBlob,
   createTree, createCommit or updateRef. *)
C6_SecondRunIsNoOp ==
    \A r \in RunIds : \A q \in run[r].after :
        (Succeeded(run[r], "getRef") /\ run[r].latestCommitSha = HeadLeftBy(run[q]))
            => NoMutatingCall(run[r])

(* C7: every path of the remote map that is no local repo path has exactly one
   operation, a delete; no other path has a delete; the add/update paths and
   the delete paths are disjoint. *)
C7_DeletesExactlyRemoteOnly ==
    \A r \in RunIds :
        DiffDone(run[r]) =>
            LET gone == RemoteKeys(run[r].remoteFiles)
                            \ LocalRepoPathsOf(run[r].localFiles)
                tree == run[r].tree
            IN  /\ \A p \in gone :
                      /\ Cardinality(OpsAt(tree, p)) = 1
                      /\ p \notin AddPaths(tree)
                /\ DeletePaths(tree) = gone
                /\ AddPaths(tree) \cap DeletePaths(tree) = {}

C7_Witness ==
    \E r \in RunIds :
        /\ DiffDone(run[r])
        /\ DeletePaths(run[r].tree) # {}
        /\ AddPaths(run[r].tree) # {}
        /\ RemoteKeys(run[r].remoteFiles) \cap LocalRepoPathsOf(run[r].localFiles) # {}

(* C8: the operation sequence of a run holds at most one operation per repo
   path, and a run uploads at most one blob (an answered createBlob) per repo
   path. *)
C8_OneOperationPerPath ==
    \A r \in RunIds :
        /\ \A i, j \in 1..Len(run[r].tree) :
              run[r].tree[i].path = run[r].tree[j].path => i = j
        /\ \A i, j \in 1..Len(run[r].calls) :
              (/\ run[r].calls[i].api = "createBlob" /\ run[r].calls[i].ok
               /\ run[r].calls[j].api = "createBlob" /\ run[r].calls[j].ok
               /\ run[r].calls[i].path = run[r].calls[j].path) => i = j

\* a path at the folder or nested under it
AtOrUnder(path, folder) == path = folder \/ StartsWith(path, folder \o "/")

(* C9: with a non-empty target folder F the remote map holds exactly the blob
   entries of the base tree at F or under F/, and no operation of the run is a
   delete of a path outside F. *)
C9_FolderScoping ==
    \A r \in RunIds :
        (DiffStarted(run[r]) /\ run[r].repoFolder # "") =>
            /\ RemoteKeys(run[r].remoteFiles)
                  = {p \in DOMAIN run[r].baseTreeSha : AtOrUnder(p, run[r].repoFolder)}
            /\ \A e \in Range(run[r].remoteFiles) : e.sha = run[r].baseTreeSha[e.path]
            /\ \A p \in DeletePaths(run[r].tree) : AtOrUnder(p, run[r].repoFolder)

C9_Witness ==
    \E r \in RunIds :
        /\ DiffDone(run[r]) /\ run[r].repoFolder # ""
        /\ "other.txt" \in DOMAIN run[r].baseTreeSha
        /\ "other.txt" \notin LocalRepoPathsOf(run[r].localFiles)
        /\ DeletePaths(run[r].tree) # {}
        /\ run[r].outcome = "published"
        /\ "other.txt" \in DOMAIN commits[branchRef].tree

\* the place of a remote call in the pipeline
StageRank(api) ==
    CASE api = "getRef" -> 1 [] api = "getCommit" -> 2 [] api = "getTree" -> 3
      [] api = "createBlob" -> 4 [] api = "createTree" -> 5
      [] api = "createCommit" -> 6 [] api = "updateRef" -> 7

(* C10: a rejected remote call ends the run in the error path at once: it is
   the last call of the run, no call is issued twice for the same stage, no
   call of a later stage is issued, and the run has not moved the branch ref;
   the ref is where the repository started or where a run that did not end in
   the error path put it. *)
C10_FailureAborts ==
    /\ \A r \in RunIds :
          LET c == run[r].calls
          IN  /\ \A i \in 1..Len(c) :
                    ~c[i].ok => /\ i = Len(c)
                                /\ run[r].pc = "done"
                                /\ run[r].outcome = "error"
                                /\ run[r].failedAt = c[i].api
              /\ (run[r].outcome = "error" /\ run[r].failedAt \in RemoteStages) =>
                    /\ Len(c) > 0 /\ ~c[Len(c)].ok
                    /\ \A i \in 1..Len(c) :
                          StageRank(c[i].api) <= StageRank(run[r].failedAt)
                    /\ \A i, j \in 1..Len(c) :
                          (c[i].api = c[j].api /\ c[i].api # "createBlob") => i = j
                    /\ ~Succeeded(run[r], "updateRef")
    /\ \/ branchRef = 1
       \/ \E r \in RunIds :
             /\ Succeeded(run[r], "updateRef")
             /\ run[r].commitSha = branchRef
             /\ run[r].outcome # "error"

C10_Witness ==
    \E r \in RunIds :
        /\ run[r].outcome = "error" /\ run[r].failedAt = "updateRef"
        /\ Issued(run[r], "createCommit")
        /\ branchRef = run[r].latestCommitSha

\* the repository URLs of the model that parseRepoUrl gives an owner/repo for
ParsedUrls == {u \in RepoUrls : parseRepoUrl(u).ok}

\* the settings hold a configuration error: no token, no repository URL, no
\* branch, or a URL that gives no owner/repo
ConfigError(s) ==
    \/ s.githubToken = "" \/ s.repoUrl = "" \/ s.repoBranch = ""
    \/ s.repoUrl \notin ParsedUrls

(* C11: with a configuration error in the settings every started run has ended
   at once, as invalid or in the error path at parseRepoUrl, without a single
   remote call in its log and without going on to another stage. *)
C11_ConfigErrorAborts ==
    /\ ConfigError(settings) =>
          \A r \in RunIds :
              /\ run[r].calls = << >>
              /\ run[r].pc \in {"idle", "done"}
              /\ run[r].pc = "done" =>
                    \/ run[r].outcome = "invalid"
                    \/ run[r].outcome = "error" /\ run[r].failedAt = "parseRepoUrl"
    /\ \A r \in RunIds :
          (run[r].outcome = "invalid" \/ run[r].failedAt = "parseRepoUrl") =>
              run[r].pc = "done" /\ run[r].calls = << >> /\ run[r].stamp = 0

C11_Witness ==
    /\ settings.repoBranch = ""
    /\ \A r \in RunIds : run[r].pc = "done" /\ run[r].outcome = "invalid"

\* the invocation has ended in the catch block
Failed(rec) == rec.outcome = "error"

(* C12: a run in which a call was rejected or parseRepoUrl threw has returned
   through the catch block (it is done, in the error path, and stays so), and
   the step in which a run fails changes neither the settings, the client,
   syncIntervalId nor the live timers: the timer that was live is still live
   and the next trigger starts an invocation as before. *)
C12_FailureIsCaught ==
    /\ [](\A r \in RunIds :
            /\ (\E i \in 1..Len(run[r].calls) : ~run[r].calls[i].ok) =>
                  run[r].pc = "done" /\ Failed(run[r])
            /\ Failed(run[r]) => run[r].pc = "done")
    /\ [][\A r \in RunIds :
            /\ (Failed(run'[r]) /\ ~Failed(run[r])) =>
                  /\ timers' = timers /\ syncIntervalId' = syncIntervalId
                  /\ settings' = settings /\ octokit' = octokit
                  /\ \A q \in RunIds \ {r} : run'[q] = run[q]
            /\ Failed(run[r]) => run'[r] = run[r]]_vars

C12_Witness ==
    \E r, q \in RunIds :
        /\ r < q
        /\ Failed(run[r]) /\ run[r].failedAt \in RemoteStages
        /\ run[q].pc = "done" /\ run[q].outcome = "published"
        /\ timers # {} /\ syncIntervalId \in timers

\* the commits reachable from c
ReachableFrom(cs, c) == {a \in 1..Len(cs) : IsAncestor(cs, a, c)}

(* C13: every step that moves the branch ref is the updateRef of a run whose
   commit has exactly one parent, the head the run read with getRef, and the
   ref points to that parent when it is moved; every commit reachable from the
   ref before the step is reachable after it, and every commit a run created
   has one parent. *)
C13_FastForward ==
    /\ [](\A c \in 2..Len(commits) : Len(commits[c].parents) = 1)
    /\ [][branchRef' # branchRef =>
            /\ \E r \in RunIds :
                  /\ run[r].pc = "updateRef"
                  /\ Succeeded(run'[r], "updateRef")
                  /\ branchRef' = run[r].commitSha
                  /\ commits[branchRef'].parents = <<run[r].latestCommitSha>>
                  /\ branchRef = run[r].latestCommitSha
            /\ ReachableFrom(commits, branchRef) \subseteq ReachableFrom(commits, branchRef')
         ]_vars

C13_Witness ==
    \E r, q \in RunIds :
        /\ r # q
        /\ run[r].outcome = "published" /\ branchRef = run[r].commitSha
        /\ run[q].latestCommitSha = run[r].latestCommitSha
        /\ Failed(run[q]) /\ run[q].failedAt = "updateRef"
        /\ run[q].commitSha > run[r].commitSha

(* C14: every remote call of a run goes through the same API client, the one
   built from the token the settings held when the run started: no two calls
   in the log of a run differ in their client. *)
C14_OneSnapshot ==
    \A r \in RunIds :
        \A i, j \in 1..Len(run[r].calls) :
            run[r].calls[i].auth = run[r].calls[j].auth

(* C15: isTextBuffer gives true for the empty buffer, and a vault file of zero
   bytes is gathered as a text LocalFile whose content is the empty string. *)
C15_EmptyFileIsText ==
    \A r \in RunIds : \A f \in Range(run[r].localFiles) :
        vault[f.vaultPath] = << >> =>
            /\ isTextBuffer(vault[f.vaultPath])
            /\ f.isText /\ f.content = << >> /\ f.binary = Undefined

\* the sync interval is 0, negative or not a number
IntervalOff(s) == isNaN(s.syncInterval) \/ s.syncInterval.v <= 0

\* no interval is live and syncIntervalId is null
NoTimer == timers = {} /\ syncIntervalId = 0

\* the step completes a saveSettings: of a handler of the tab, or of
\* updateLastSyncDate at the end of a run
SaveCompletes ==
    \/ tab'.saving < tab.saving
    \/ \E r \in RunIds : run[r].pc = "save" /\ run'[r].pc = "done"

(* C16: when no saveSettings of the tab is pending (after loadSettings, and
   after every save once the saves issued have completed) and also right after
   every completed saveSettings, a sync interval that is 0, negative or NaN
   means that no interval is live, syncIntervalId is null and the timer
   callback cannot start publishToGitHub. *)
C16_IntervalOffNoTimer ==
    /\ []((tab.saving = 0 /\ IntervalOff(settings)) =>
              NoTimer /\ ~ENABLED TimerTick)
    /\ [][(SaveCompletes /\ IntervalOff(settings')) => NoTimer']_vars

C16_Witness ==
    /\ settings.syncInterval = NaN
    /\ SettingsComplete(settings)
    /\ tab.saving = 0 /\ tab.edits = 1
    /\ NoTimer
    /\ \E r \in RunIds : InFlight(run[r])

\* a path outside the target folder of a run
Outside(path, folder) == ~UnderTarget(path, folder)

(* C17: every operation of a run, add/update or delete, has its path inside
   the target folder; the tree the run creates is its operations on top of the
   base tree it fetched, and every path outside the target folder has in it,
   and in the commit the run creates, the blob it has in the base tree. *)
C17_OutsideUntouched ==
    \A r \in RunIds :
        LET rec == run[r]
            base == rec.baseTreeSha
            kept == {p \in DOMAIN base : Outside(p, rec.repoFolder)}
        IN  /\ \A i \in 1..Len(rec.tree) : UnderTarget(rec.tree[i].path, rec.repoFolder)
            /\ Succeeded(rec, "createTree") =>
                  /\ rec.newTreeSha = ApplyOps(base, rec.tree)
                  /\ {p \in DOMAIN rec.newTreeSha : Outside(p, rec.repoFolder)} = kept
                  /\ \A p \in kept : rec.newTreeSha[p] = base[p]
            /\ Succeeded(rec, "createCommit") =>
                  /\ commits[rec.commitSha].tree = rec.newTreeSha
                  /\ commits[rec.commitSha].parents = <<rec.latestCommitSha>>
                  /\ commits[rec.latestCommitSha].tree = base

C17_Witness ==
    \E r \in RunIds :
        /\ run[r].outcome = "published" /\ run[r].repoFolder = "pub"
        /\ AddPaths(run[r].tree) # {} /\ DeletePaths(run[r].tree) # {}
        /\ "other.txt" \in DOMAIN run[r].baseTreeSha
        /\ "other.txt" \in DOMAIN commits[run[r].commitSha].tree
        /\ branchRef = run[r].commitSha

\* the paths the remote map holds with no blob hash (the listing had none)
NoHashPaths(rec) == {e.path : e \in {x \in Range(rec.remoteFiles) : x.sha = ""}}

(* C18: when the listing gave no hash for a remote entry under the target
   folder, a local file at that path is uploaded (an answered createBlob) and
   has an add/update operation with its content, and the run has a non-empty
   operation sequence and does not end as a no-op. *)
C18_MissingHashIsDifferent ==
    \A r \in RunIds :
        (DiffDone(run[r]) /\ NoHashPaths(run[r]) # {}) =>
            /\ \A f \in Range(run[r].localFiles) :
                  f.repoPath \in NoHashPaths(run[r]) =>
                      /\ \E i \in 1..Len(run[r].calls) :
                            /\ run[r].calls[i].api = "createBlob"
                            /\ run[r].calls[i].path = f.repoPath
                            /\ run[r].calls[i].ok
                      /\ \E i \in 1..Len(run[r].tree) :
                            /\ run[r].tree[i].path = f.repoPath
                            /\ run[r].tree[i].sha = ContentSha(f)
            /\ Len(run[r].tree) > 0
            /\ run[r].outcome # "noop"
            /\ run[r].pc # "save" \/ Succeeded(run[r], "updateRef")

C18_Witness ==
    \E r \in RunIds :
        /\ run[r].outcome = "published"
        /\ "pub/a.md" \in NoHashPaths(run[r])
        /\ run[r].baseTreeSha["pub/a.md"] = LocalShaOf(run[r].localFiles[1])
        /\ "pub/a.md" \in AddPaths(run[r].tree)
        /\ DeletePaths(run[r].tree) = {}

\* token, repository URL and branch are set and the interval is positive
TimerDue(s) ==
    /\ s.githubToken # "" /\ s.repoUrl # "" /\ s.repoBranch # ""
    /\ ~isNaN(s.syncInterval) /\ s.syncInterval.v > 0

\* syncIntervalId is the only live interval, or null with none live
OneTimer ==
    /\ Cardinality(timers) <= 1
    /\ syncIntervalId = 0 => timers = {}
    /\ syncIntervalId # 0 => timers = {syncIntervalId}

(* C19: in every state at most one interval is live and syncIntervalId is that
   interval, or null when none is live; when no saveSettings of the tab is
   pending, and right after every completed saveSettings (of a tab handler or
   of updateLastSyncDate), an interval is live exactly when token, repository
   URL and branch are non-empty and the sync interval is positive. *)
C19_OneTimer ==
    /\ [](OneTimer /\ (tab.saving = 0 => (timers # {} <=> TimerDue(settings))))
    /\ [][SaveCompletes => (OneTimer' /\ (timers' # {} <=> TimerDue(settings')))]_vars

C19_Witness ==
    /\ tab.saving = 0 /\ tab.edits >= 2
    /\ settings.githubToken = "tok2" /\ octokit = "tok2"
    /\ \E r \in RunIds : run[r].outcome = "published"
    /\ timers = {syncIntervalId} /\ syncIntervalId # 0
    /\ settings.lastSyncDate > 0

\* the run may record a sync: its diff was empty or its updateRef succeeded
MayRecord(rec) ==
    \/ DiffDone(rec) /\ Len(rec.tree) = 0
    \/ Succeeded(rec, "updateRef")

(* C20: lastSyncDate is 0 or the timestamp of a run; a run has written a
   timestamp only after an empty diff or a successful updateRef, and with a
   non-empty diff not before its updateRef succeeded; a run that ended as
   invalid or in the catch block has written none, and the step in which a
   run fails leaves lastSyncDate as it was. *)
C20_StampOnlyOnSuccess ==
    /\ [](/\ settings.lastSyncDate = 0
             \/ \E r \in RunIds : run[r].stamp = settings.lastSyncDate
          /\ \A r \in RunIds :
                /\ run[r].stamp > 0 =>
                      /\ MayRecord(run[r])
                      /\ Len(run[r].tree) > 0 => Succeeded(run[r], "updateRef")
                      /\ run[r].pc \in {"save", "done"}
                      /\ run[r].outcome \in {"", "noop", "published"}
                /\ run[r].outcome \in {"invalid", "error"} => run[r].stamp = 0)
    /\ [][/\ settings'.lastSyncDate # settings.lastSyncDate =>
                \E r \in RunIds :
                    /\ run[r].stamp = 0
                    /\ run'[r].stamp = settings'.lastSyncDate
                    /\ MayRecord(run'[r])
          /\ \A r \in RunIds :
                (run'[r].outcome \in {"invalid", "error"} /\ run[r].outcome = "") =>
                    settings'.lastSyncDate = settings.lastSyncDate
         ]_vars

C20_Witness ==
    \E r, q \in RunIds :
        /\ run[r].outcome = "published"
        /\ run[r].stamp > 0 /\ settings.lastSyncDate = run[r].stamp
        /\ Failed(run[q]) /\ run[q].failedAt = "updateRef" /\ run[q].stamp = 0

====
